---- MODULE Spec2Model ----
(***************************************************************************)
(* ClassificationModelTrainer of imageai/Classification/Custom/__init__.py *)
(* as a state machine: the trainer's private fields, the output directory  *)
(* on disk, and the position of a trainModel call in its code.             *)
(***************************************************************************)
EXTENDS Integers, Sequences, FiniteSets, TLC

\* ------------------------------------------------------------------ bounds
\* Epochs the trainer is asked for over its life: each trainModel call takes
\* its num_experiments from what is left (any number of calls of 0 epochs).
MaxEpochs == 2
\* Examples in each split of the dataset on disk; batch sizes are
\* 1..MaxSize + 1.
MaxSize == 2
\* Class folders in the dataset directory.
MaxClasses == 2

VARIABLES
    \* fields of ClassificationModelTrainer (__init__, lines 20-34)
    model_type, data_dir, data_loaders, class_names, dataset_sizes,
    dataset_name, model, optimizer, lr_scheduler, transfer_learning_mode,
    model_path, training_params,
    \* on disk: the class folders of the dataset as the loader lists them,
    \* and the output directory
    folders, dir_exists, mapping_file, disk, torn,
    \* the trainModel call: position, arguments and locals
    pc, num_experiments, epoch, phase, remaining, running_corrects,
    best_acc, prev_save_name, recent_save_name,
    \* epochs asked for so far, over all calls
    asked,
    \* history of the current call: the steps of lines 193-216 it has done,
    \* the exception that ended it, the correct count of each evaluate
    \* phase, the checkpoints it wrote, and how often it has called
    \* optimizer.step() and lr_scheduler.step()
    steps, error, acc_history, written, opt_steps, lr_steps,
    \* __set_transfer_learning_mode: the keys of the state dict it loaded, in
    \* the dict's order, and how often the loop of lines 92-97 has been run
    \* over them
    state_dict, passes

trainer == <<model_type, data_dir, data_loaders, class_names, dataset_sizes,
             dataset_name, model, optimizer, lr_scheduler,
             transfer_learning_mode, model_path, training_params>>
filesystem == <<folders, dir_exists, mapping_file, disk, torn>>
locals == <<num_experiments, epoch, phase, remaining, running_corrects,
            best_acc, prev_save_name, recent_save_name>>
history == <<asked, steps, error, acc_history, written, opt_steps,
             lr_steps>>
loading == <<state_dict, passes>>
vars == <<trainer, filesystem, pc, locals, history, loading>>

\* ------------------------------------------------------------ value spaces
Architectures == {"mobilenet_v2", "resnet50", "inception_v3", "densenet121"}

\* A class folder name is a string, modelled as its sequence of character
\* codes: "a" = <<1>>, "ab" = <<1, 2>>, "ac" = <<1, 3>>, ...
FolderNames == {<<1>>} \cup {<<1, c>> : c \in 2..MaxClasses}

\* No value (Python None / the empty string) of each field.
NoName == <<>>
NoSizes == [train |-> 0, test |-> 0]
NoFile == <<>>
\* The network held by a training-parameter profile: the width of its final
\* layer (0: the width the backbone factory gave it), whether the final layer
\* and the other layers are trainable (requires_grad), and whether checkpoint
\* values have been loaded into it.
FreshModel == [head_out |-> 0, head_grad |-> TRUE, body_grad |-> TRUE,
               loaded |-> FALSE]
\* self.__training_params: None, or the profile a setModelAs* call built
\* (whether it has a step-decay schedule, and its network).
NoParams == [set |-> FALSE, sched |-> FALSE, net |-> FreshModel]

\* ----------------------------------------------------------- pure helpers
Range(q) == {q[i] : i \in 1..Len(q)}

\* Python's str < str: lexicographic order on character codes, a proper
\* prefix first.
RECURSIVE LexLess(_, _)
LexLess(a, b) ==
    IF a = <<>> THEN b # <<>>
    ELSE IF b = <<>> THEN FALSE
    ELSE IF Head(a) # Head(b) THEN Head(a) < Head(b)
    ELSE LexLess(Tail(a), Tail(b))

\* Insert x into the ascending list s before the first larger element.
RECURSIVE Insert(_, _)
Insert(x, s) ==
    IF s = <<>> THEN <<x>>
    ELSE IF LexLess(x, Head(s)) THEN <<x>> \o s
    ELSE <<Head(s)>> \o Insert(x, Tail(s))

RECURSIVE InsertionSort(_)
InsertionSort(s) ==
    IF s = <<>> THEN <<>> ELSE Insert(Head(s), InsertionSort(Tail(s)))

\* The list as the loader reports it, not sorted.
Unsorted(names) == names

\* sorted(self.__class_names), line 213.
Sorted(names) == InsertionSort(names)

\* str(i), line 215: the decimal digits of i, most significant first.
RECURSIVE Str(_)
Str(i) == IF i < 10 THEN <<i>> ELSE Str(i \div 10) \o <<i % 10>>

\* classes_dict of lines 212-215: the set of (key, class name) pairs.
ClassesDict(names) ==
    LET class_list == Sorted(names)
    IN  {<<Str(i - 1), class_list[i]>> : i \in 1..Len(class_list)}

\* f"{acc:.5f}" of corrects / size, as the integer acc * 10^5 rounded.
Format5(corrects, size) == (2 * 100000 * corrects + size) \div (2 * size)

\* The checkpoint file name of line 277.
SaveName(arch, ds, corrects, size, ep) == <<arch, ds, Format5(corrects, size), ep>>

\* os.path.basename(data_dir.rstrip(os.path.sep)), line 125: data
\* directories are modelled as [base, slash], base the last path component.
Basename(dir) == dir.base

NoDir == [base |-> "", slash |-> FALSE]
DataDirs == {[base |-> "pets", slash |-> TRUE]}
\* Arguments that are not directories (setDataDirectory rejects them).
NotDirs == {[base |-> "nowhere", slash |-> FALSE]}

\* Transfer checkpoints ("" is no path, None): one of the backbone as its
\* factory builds it, one saved by a run on this dataset. CkptHead is the
\* width of the final layer stored in the file, 0 being the factory's.
CkptPaths == {"imagenet.pt", "custom.pt"}
CkptHead(path) == IF path = "imagenet.pt" THEN 0 ELSE MaxClasses

\* ------------------------------------------- densenet121 key remapping
\* A state-dict key is a string, modelled as its sequence of tokens:
\* "denselayer1.norm.1.weight" = <<"denselayer", "1", ".", "norm", ".", "1",
\* ".", "weight">>; joining two strings is joining their token sequences.
IsDigit(t) == t \in {"0", "1", "2", "3", "4", "5", "6", "7", "8", "9"}
Stages == {"norm", "relu", "conv"}
Tensors == {"weight", "bias", "running_mean", "running_var"}

\* `$` matches at the end of the key or before a newline that ends it: the
\* part of the key the pattern has to cover.
Body(key) ==
    IF key # <<>> /\ key[Len(key)] = "\n"
    THEN SubSeq(key, 1, Len(key) - 1) ELSE key

\* The pattern with `\.?` between its groups: the tokens the separator
\* takes, none when there is no dot.
OptionalDot(b) == IF Len(b) >= 4 /\ b[Len(b) - 3] = "." THEN 1 ELSE 0

\* `\.` between the two groups of lines 89-90: the number of tokens it takes
\* before the three of group 2, -1 when there is no dot to take.
Dot(b) == IF Len(b) >= 4 /\ b[Len(b) - 3] = "." THEN 1 ELSE -1

\* `.*denselayer\d+\.(?:norm|relu|conv)` covers g: g ends with a stage, a
\* dot before it, one or more digits before the dot and "denselayer" before
\* the digits; `.` does not match a newline.
IsLayerStage(g) ==
    LET m == Len(g)
    IN  /\ m >= 4
        /\ g[m] \in Stages
        /\ g[m - 1] = "."
        /\ \E d \in 1..(m - 3) :
              /\ \A i \in (m - 1 - d)..(m - 2) : IsDigit(g[i])
              /\ g[m - 2 - d] = "denselayer"
        /\ \A i \in 1..m : g[i] # "\n"

\* res.group(2), `(?:[12])\.(?:weight|bias|running_mean|running_var)`: the
\* last three tokens; <<>> when they are not of that form.
Group2(key) ==
    LET b == Body(key)
        n == Len(b)
    IN  IF n >= 3 /\ b[n - 2] \in {"1", "2"} /\ b[n - 1] = "."
           /\ b[n] \in Tensors
        THEN SubSeq(b, n - 2, n) ELSE <<>>

\* res.group(1): what is left of the separator; <<>> when pattern.match
\* returns None.
Group1(key) ==
    LET b == Body(key)
    IN  IF Group2(key) = <<>> \/ Dot(b) < 0 THEN <<>>
        ELSE LET g == SubSeq(b, 1, Len(b) - 3 - Dot(b))
             IN  IF IsLayerStage(g) THEN g ELSE <<>>

\* Lines 93-95: `if res`, and new_key.
Matches(key) == Group1(key) # <<>>
NewKey(key) == Group1(key) \o Group2(key)

\* A dict's keys are kept in insertion order: state_dict[k] = v appends k
\* unless the dict has it, del state_dict[k] takes it out.
WithKey(dict, k) == IF k \in Range(dict) THEN dict ELSE Append(dict, k)
WithoutKey(dict, k) == SelectSeq(dict, LAMBDA x : x # k)

\* Lines 92-97: the loop over list(state_dict.keys()), `keys` being what is
\* left of that list.
RECURSIVE RemapKeys(_, _)
RemapKeys(dict, keys) ==
    IF keys = <<>> THEN dict
    ELSE LET key == Head(keys)
         IN  RemapKeys(IF Matches(key)
                       THEN WithoutKey(WithKey(dict, NewKey(key)), key)
                       ELSE dict,
                       Tail(keys))

Remapped(dict) == RemapKeys(dict, dict)

\* The keys stored in a transfer checkpoint of architecture arch, one of the
\* network's other layers and one of its final layer. The densenet121
\* weights of the model zoo carry the dotted names; a checkpoint this
\* trainer saved carries the names the network has.
BodyKey(arch, dotted) ==
    IF arch = "densenet121"
    THEN <<"features", ".", "denseblock", "1", ".", "denselayer", "1", ".",
           "norm">> \o (IF dotted THEN <<".">> ELSE <<>>)
                   \o <<"1", ".", "weight">>
    ELSE <<"features", ".", "0", ".", "weight">>
HeadKey == <<"classifier", ".", "weight">>
ModelKeys(arch) == <<BodyKey(arch, FALSE), HeadKey>>
CkptKeys(path, arch) == <<BodyKey(arch, path = "imagenet.pt"), HeadKey>>

\* The orders in which the dataset loader can report the class folders of
\* the data directory: every arrangement of the folders. (torchvision
\* reports them sorted; the trainer does not rely on it.)
Arrangements(S) ==
    {s \in [1..Cardinality(S) -> S] :
        \A i, j \in 1..Len(s) : i # j => s[i] # s[j]}
ClassLists == Arrangements(FolderNames)

\* ------------------------------------------------------------------- Init
Constructed ==
    /\ model_type = ""
    /\ data_dir = NoDir
    /\ data_loaders = 0
    /\ class_names = <<>>
    /\ dataset_sizes = NoSizes
    /\ dataset_name = ""
    /\ model = "None"
    /\ optimizer = "None"
    /\ lr_scheduler = "None"
    /\ transfer_learning_mode = "fine_tune_all"
    /\ model_path = ""
    /\ training_params = NoParams
    /\ folders \in ClassLists
    /\ dir_exists = FALSE
    /\ mapping_file = NoFile
    /\ disk = {}
    /\ torn = {}
    /\ pc = "idle"
    /\ num_experiments = 0
    /\ epoch = 0
    /\ phase = "train"
    /\ remaining = 0
    /\ running_corrects = 0
    /\ best_acc = 0
    /\ prev_save_name = NoName
    /\ recent_save_name = NoName
    /\ asked = 0
    /\ steps = <<>>
    /\ opt_steps = 0
    /\ lr_steps = 0
    /\ error = ""
    /\ acc_history = <<>>
    /\ written = {}

Init ==
    /\ Constructed
    /\ state_dict = <<>>
    /\ passes = 0

\* -------------------------------------------------------- configuration API
\* The caller is between calls and has epochs left to ask for (the model
\* follows the trainer until MaxEpochs epochs have been asked for).
Configuring == pc = "idle" /\ asked < MaxEpochs

\* The frame of a trainModel call before its locals are assigned.
NoFrame ==
    /\ epoch' = 0
    /\ phase' = "train"
    /\ remaining' = 0
    /\ running_corrects' = 0
    /\ best_acc' = 0
    /\ prev_save_name' = NoName
    /\ recent_save_name' = NoName

\* setDataDirectory, lines 148-151: a non-directory raises ValueError.
setDataDirectory ==
    /\ Configuring
    /\ \E d \in DataDirs \cup NotDirs :
         data_dir' = IF d \in DataDirs THEN d ELSE data_dir
    /\ UNCHANGED <<model_type, data_loaders, class_names, dataset_sizes,
                   dataset_name, model, optimizer, lr_scheduler,
                   transfer_learning_mode, model_path, training_params>>
    /\ UNCHANGED <<filesystem, pc, locals, history>>
    /\ UNCHANGED loading

\* The body shared by the four setModelAs* methods, lines 153-167: the
\* profile function builds a new network; whether the profile has a
\* step-decay schedule (lr_decay_rate and lr_step_size) is the profile's.
SelectModel(arch) ==
    /\ Configuring
    /\ model_type' = arch
    /\ \E s \in BOOLEAN :
         training_params' = [set |-> TRUE, sched |-> s, net |-> FreshModel]
    \* self.__model keeps pointing at the network of the profile it was
    \* taken from, which is no longer the profile's.
    /\ model' = IF model = "None" THEN "None" ELSE "old"
    /\ UNCHANGED <<data_dir, data_loaders, class_names, dataset_sizes,
                   dataset_name, optimizer, lr_scheduler,
                   transfer_learning_mode, model_path>>
    /\ UNCHANGED <<filesystem, pc, locals, history>>
    /\ UNCHANGED loading

setModelAsMobileNetV2 == SelectModel("mobilenet_v2")
setModelAsResNet50 == SelectModel("resnet50")
setModelAsInceptionV3 == SelectModel("inception_v3")
setModelAsDenseNet121 == SelectModel("densenet121")

SetMode(mode) ==
    /\ Configuring
    /\ transfer_learning_mode' = mode
    /\ UNCHANGED <<model_type, data_dir, data_loaders, class_names,
                   dataset_sizes, dataset_name, model, optimizer,
                   lr_scheduler, model_path, training_params>>
    /\ UNCHANGED <<filesystem, pc, locals, history>>
    /\ UNCHANGED loading

\* Lines 169-181.
freezeAllLayers == SetMode("freeze_all")
fineTuneAllLayers == SetMode("fine_tune_all")

\* ------------------------------------------------------------- trainModel
\* A loader that would not look at self.__data_dir first.
LoadDataRaisesUnchecked(ok) == ~ok

\* __load_data, lines 105-125, as called at line 193 with batch_size bs:
\* `ok` is whether both ImageFolder constructions succeed, `listing` the
\* class folders the train split reports (image_dataset["train"].classes).
\* Lines 107-115 raise before anything is assigned.
LoadDataRaises(ok) == data_dir = NoDir \/ ~ok

LoadData(bs, listing) ==
    /\ data_loaders' = bs
    /\ dataset_sizes' = [train |-> MaxSize, test |-> MaxSize]
    /\ class_names' = listing
    /\ dataset_name' = Basename(data_dir)

\* The batch_size argument: sizes that divide a split, that do not, and one
\* larger than a split.
BatchSizes == 1..(MaxSize + 1)

\* The call of trainModel up to line 197: __load_data, then the transfer
\* path is stored when one is given.
TrainModel ==
    /\ Configuring
    /\ acc_history' = <<>>
    /\ written' = {}
    /\ opt_steps' = 0
    /\ lr_steps' = 0
    /\ state_dict' = <<>>
    /\ passes' = 0
    /\ NoFrame
    /\ \E n \in 0..(MaxEpochs - asked), bs \in BatchSizes,
          transfer_from_model \in {""} \cup CkptPaths, ok \in BOOLEAN :
         /\ num_experiments' = n
         /\ asked' = asked + n
         /\ IF LoadDataRaises(ok)
            THEN /\ pc' = "raised"
                 /\ error' = "dataset"
                 /\ steps' = <<>>
                 /\ UNCHANGED <<data_loaders, dataset_sizes, class_names,
                                dataset_name, model_path>>
            ELSE /\ LoadData(bs, folders)
                 /\ error' = ""
                 /\ steps' = <<"load_data">>
                        \o (IF transfer_from_model # ""
                            THEN <<"model_path">> ELSE <<>>)
                 /\ model_path' = IF transfer_from_model # ""
                                  THEN transfer_from_model ELSE model_path
                 /\ pc' = "set_training_param"
    /\ UNCHANGED <<model_type, data_dir, model, optimizer, lr_scheduler,
                   transfer_learning_mode, training_params>>
    /\ UNCHANGED filesystem

\* __set_training_param, lines 42-53: without a model type it raises;
\* otherwise self.__model becomes the profile's network, and the transfer
\* step runs first when a transfer path is stored.
SetTrainingParam ==
    /\ pc = "set_training_param"
    /\ IF model_type = ""
       THEN /\ pc' = "raised"
            /\ error' = "model_type"
            /\ model' = model
       ELSE /\ model' = "profile"
            /\ error' = error
            /\ pc' = IF model_path # "" THEN "transfer" ELSE "head"
    /\ UNCHANGED <<model_type, data_dir, data_loaders, class_names,
                   dataset_sizes, dataset_name, optimizer, lr_scheduler,
                   transfer_learning_mode, model_path, training_params>>
    /\ UNCHANGED <<filesystem, locals, asked, steps, acc_history, written,
                   opt_steps, lr_steps>>
    /\ UNCHANGED loading

\* load_state_dict is strict: the stored tensors must have the shapes of the
\* network's own, the final layer's included (line 99).
StateDictFits(path, net) == CkptHead(path) = net.head_out

\* ... and the keys must be the names of the network's own tensors.
KeysFit(dict, arch) == Range(dict) = Range(ModelKeys(arch))

\* Lines 84-97: the keys of the loaded dict, remapped for densenet121.
LoadedKeys(path, arch) ==
    IF arch = "densenet121" THEN Remapped(CkptKeys(path, arch))
    ELSE CkptKeys(path, arch)

\* Lines 101-103: freeze_all clears requires_grad on every parameter the
\* network has at that point.
Frozen(net, mode) ==
    IF mode = "freeze_all"
    THEN [net EXCEPT !.head_grad = FALSE, !.body_grad = FALSE]
    ELSE net

\* __set_transfer_learning_mode, lines 82-103: `readable` is whether
\* torch.load succeeds; the keys are remapped before load_state_dict. A
\* load_state_dict that raises has copied the tensors that fit before it
\* reports the ones that do not.
SetTransferLearningMode ==
    /\ pc = "transfer"
    /\ \E readable \in BOOLEAN :
         /\ state_dict' = IF readable THEN LoadedKeys(model_path, model_type)
                          ELSE state_dict
         /\ passes' = IF readable /\ model_type = "densenet121" THEN 1
                      ELSE passes
         /\ IF /\ readable
               /\ KeysFit(LoadedKeys(model_path, model_type), model_type)
               /\ StateDictFits(model_path, training_params.net)
            THEN /\ training_params' =
                      [training_params EXCEPT
                         !.net = Frozen([@ EXCEPT !.loaded = TRUE],
                                        transfer_learning_mode)]
                 /\ steps' = steps
                        \o (IF transfer_learning_mode = "freeze_all"
                            THEN <<"load_state_dict", "freeze">>
                            ELSE <<"load_state_dict">>)
                 /\ pc' = "head"
                 /\ error' = error
            ELSE /\ pc' = "raised"
                 /\ error' = "checkpoint_load"
                 /\ training_params' =
                      IF readable
                      THEN [training_params EXCEPT !.net.loaded = TRUE]
                      ELSE training_params
                 /\ steps' = steps
    /\ UNCHANGED <<model_type, data_dir, data_loaders, class_names,
                   dataset_sizes, dataset_name, model, optimizer,
                   lr_scheduler, transfer_learning_mode, model_path>>
    /\ UNCHANGED <<filesystem, locals, asked, acc_history, written,
                   opt_steps, lr_steps>>

\* Lines 58-66: whichever attribute holds it, the final layer is replaced by
\* a new nn.Linear with one output per class; a new layer is trainable.
WithNewHead(net, classes) ==
    [net EXCEPT !.head_out = Len(classes), !.head_grad = TRUE]

\* Lines 75-80: a StepLR is made for the new optimizer when the profile has
\* a schedule; otherwise the field keeps the scheduler of an earlier call,
\* which steps that call's optimizer.
NextScheduler(previous, sched) ==
    IF sched THEN "current"
    ELSE IF previous = "None" THEN "None" ELSE "stale"

\* Lines 58-80: head replacement, then a new optimizer, then the scheduler.
ReplaceHead ==
    /\ pc = "head"
    /\ training_params' =
         [training_params EXCEPT !.net = WithNewHead(@, class_names)]
    /\ optimizer' = "made"
    /\ lr_scheduler' = NextScheduler(lr_scheduler, training_params.sched)
    /\ steps' = steps \o <<"head", "optimizer">>
                      \o (IF training_params.sched THEN <<"scheduler">>
                          ELSE <<>>)
    /\ pc' = "output"
    /\ UNCHANGED <<model_type, data_dir, data_loaders, class_names,
                   dataset_sizes, dataset_name, model,
                   transfer_learning_mode, model_path>>
    /\ UNCHANGED <<filesystem, locals, asked, error, acc_history, written,
                   opt_steps, lr_steps>>
    /\ UNCHANGED loading

\* Lines 204-223: the output directory is created when missing, the class
\* mapping is written, and the loop's locals are initialised. os.mkdir can
\* fail; so can open(..., "w"); so can the write, after open has emptied the
\* file.
CreateOutput ==
    /\ pc = "output"
    /\ \E outcome \in {"ok", "mkdir_fails", "open_fails", "write_fails"} :
         /\ outcome = "mkdir_fails" => ~dir_exists
         /\ dir_exists' = (dir_exists \/ outcome # "mkdir_fails")
         /\ mapping_file' =
              IF outcome = "ok" THEN <<ClassesDict(class_names)>>
              ELSE IF outcome = "write_fails" THEN <<{}>>
              ELSE mapping_file
         /\ pc' = IF outcome = "ok" THEN "loop" ELSE "raised"
         /\ error' = IF outcome = "ok" THEN error ELSE outcome
         /\ steps' = steps
                \o (IF ~dir_exists /\ outcome # "mkdir_fails"
                    THEN <<"mkdir">> ELSE <<>>)
                \o (IF outcome \in {"ok", "write_fails"}
                    THEN <<"mapping">> ELSE <<>>)
    /\ best_acc' = 0
    /\ prev_save_name' = NoName
    /\ recent_save_name' = NoName
    /\ UNCHANGED <<num_experiments, epoch, phase, remaining, running_corrects>>
    /\ UNCHANGED <<trainer, folders, disk, torn, asked, acc_history, written,
                   opt_steps, lr_steps>>
    /\ UNCHANGED loading

\* A loop that runs once more than asked.
InRangeInclusive(ep, n) == ep <= n

\* Line 232: whether range(num_experiments) yields the index ep.
InRange(ep, n) == ep < n

\* Line 232, `for epoch in range(num_experiments)`, and lines 237-244 for
\* the train phase: `epoch` is the index of the next iteration.
LoopHead ==
    /\ pc = "loop"
    /\ IF InRange(epoch, num_experiments)
       THEN /\ pc' = "batch"
            /\ phase' = "train"
            /\ remaining' = dataset_sizes.train
            /\ running_corrects' = 0
       ELSE /\ pc' = "completed"
            /\ UNCHANGED <<phase, remaining, running_corrects>>
    /\ UNCHANGED <<num_experiments, epoch, best_acc, prev_save_name,
                   recent_save_name>>
    /\ UNCHANGED <<trainer, filesystem, history>>
    /\ UNCHANGED loading

\* A loader whose last batch is as long as the others.
FullBatch(left, bs) == bs

\* The length of the next batch the DataLoader of lines 117-120 yields when
\* `left` examples of the pass have not been handed out: batch_size of them,
\* or all that are left (drop_last is not set).
BatchLen(left, bs) == IF left < bs THEN left ELSE bs

\* A batch that ends with an optimizer step in either phase.
UpdatesAlways(ph) == TRUE

\* Lines 253 and 260-262: gradients are enabled, and loss.backward() and
\* optimizer.step() run, in the train phase only.
Updates(ph) == ph = "train"

\* Lines 247-264: one batch of the current phase. The loader hands out every
\* example of the split once, data_loaders (the batch size) at a time;
\* `hits` is the number of predictions equal to their labels. In the train
\* phase the batch ends with loss.backward() and optimizer.step().
Batch ==
    /\ pc = "batch"
    /\ remaining > 0
    /\ LET size == BatchLen(remaining, data_loaders)
       IN  /\ remaining' = remaining - size
           /\ \E hits \in 0..size : running_corrects' = running_corrects + hits
    /\ opt_steps' = IF Updates(phase) THEN opt_steps + 1 ELSE opt_steps
    /\ UNCHANGED <<num_experiments, epoch, phase, best_acc, prev_save_name,
                   recent_save_name>>
    /\ UNCHANGED <<trainer, filesystem, pc, asked, steps, error, acc_history,
                   written, lr_steps>>
    /\ UNCHANGED loading

\* The comparison of line 275 with >= and with != in place of >.
ImprovesOrTies(corrects, best) == corrects >= best
ImprovesOrDiffers(corrects, best) == corrects # best

\* Line 275: epoch_acc > best_acc. Both are correct counts over the same
\* dataset_sizes["test"], so the quotients compare as the counts do.
Improves(corrects, best) == corrects > best

\* A scheduler stepped at the end of either phase.
StepsSchedulerAnyPhase(ph, sched) == sched # "None"

\* Line 267: the scheduler is stepped at the end of the train phase when the
\* field holds a StepLR.
StepsScheduler(ph, sched) == ph = "train" /\ sched # "None"

\* A batch loop left with an example still to come.
ExhaustedEarly(left) == left <= 1

\* The `for` of line 247 ends when the loader has handed out every example.
Exhausted(left) == left = 0

\* Lines 267-277 once the phase's batches are exhausted. After train the
\* scheduler the field holds, if any, is stepped (lines 267-268) and the
\* evaluate phase starts (lines 237-244); after evaluate an improvement
\* records best_acc and the new file name and goes on to line 278.
PhaseEnd ==
    /\ pc = "batch"
    /\ Exhausted(remaining)
    /\ IF phase = "train"
       THEN /\ phase' = "test"
            /\ remaining' = dataset_sizes.test
            /\ running_corrects' = 0
            /\ UNCHANGED <<pc, epoch, best_acc, recent_save_name, acc_history>>
       ELSE /\ acc_history' = Append(acc_history, running_corrects)
            /\ UNCHANGED <<phase, remaining, running_corrects>>
            /\ IF Improves(running_corrects, best_acc)
               THEN /\ best_acc' = running_corrects
                    /\ recent_save_name' =
                         SaveName(model_type, dataset_name, running_corrects,
                                  dataset_sizes.test, epoch)
                    /\ pc' = IF prev_save_name # NoName THEN "remove" ELSE "save"
                    /\ epoch' = epoch
               ELSE /\ pc' = "loop"
                    /\ epoch' = epoch + 1
                    /\ UNCHANGED <<best_acc, recent_save_name>>
    /\ lr_steps' = IF StepsScheduler(phase, lr_scheduler) THEN lr_steps + 1
                    ELSE lr_steps
    /\ UNCHANGED <<num_experiments, prev_save_name>>
    /\ UNCHANGED <<trainer, filesystem, asked, steps, error, written,
                   opt_steps>>
    /\ UNCHANGED loading

\* A removal that leaves the file in place.
NotRemoved(files, name) == files

\* os.remove(path), line 279, when it succeeds.
Removed(files, name) == files \ {name}

\* Lines 278-279: os.remove of the previous checkpoint; when it fails the
\* OSError leaves trainModel.
RemovePrevious ==
    /\ pc = "remove"
    /\ \E ok \in BOOLEAN :
         IF ok
         THEN /\ disk' = Removed(disk, prev_save_name)
              /\ pc' = "save"
              /\ error' = error
         ELSE /\ disk' = disk
              /\ pc' = "raised"
              /\ error' = "remove_fails"
    /\ UNCHANGED <<trainer, folders, dir_exists, mapping_file, torn, locals,
                   asked, steps, acc_history, written, opt_steps, lr_steps>>
    /\ UNCHANGED loading

\* Lines 280-284: torch.save of the new checkpoint, then prev_save_name is
\* updated and the iteration ends. A failing torch.save raises, before it has
\* opened the file or with an incomplete file left behind.
SaveCheckpoint ==
    /\ pc = "save"
    /\ \E outcome \in {"ok", "save_fails", "save_fails_torn"} :
         /\ disk' = IF outcome = "ok" THEN disk \cup {recent_save_name}
                    ELSE IF outcome = "save_fails_torn"
                    THEN disk \ {recent_save_name}
                    ELSE disk
         /\ torn' = IF outcome = "ok" THEN torn \ {recent_save_name}
                    ELSE IF outcome = "save_fails_torn"
                    THEN torn \cup {recent_save_name}
                    ELSE torn
         /\ written' = IF outcome = "ok" THEN written \cup {recent_save_name}
                       ELSE written
         /\ prev_save_name' = IF outcome = "ok" THEN recent_save_name
                              ELSE prev_save_name
         /\ epoch' = IF outcome = "ok" THEN epoch + 1 ELSE epoch
         /\ pc' = IF outcome = "ok" THEN "loop" ELSE "raised"
         /\ error' = IF outcome = "ok" THEN error ELSE "save_fails"
    /\ UNCHANGED <<num_experiments, phase, remaining, running_corrects,
                   best_acc, recent_save_name>>
    /\ UNCHANGED <<trainer, folders, dir_exists, mapping_file, asked, steps,
                   acc_history, opt_steps, lr_steps>>
    /\ UNCHANGED loading

\* trainModel returns (line 289) or its exception reaches the caller: the
\* frame is gone and the trainer can be used again.
Return ==
    /\ pc \in {"completed", "raised"}
    /\ pc' = "idle"
    /\ num_experiments' = 0
    /\ NoFrame
    /\ steps' = <<>>
    /\ error' = ""
    /\ acc_history' = <<>>
    /\ written' = {}
    /\ opt_steps' = 0
    /\ lr_steps' = 0
    /\ state_dict' = <<>>
    /\ passes' = 0
    /\ UNCHANGED <<trainer, filesystem, asked>>

Next ==
    \/ setDataDirectory
    \/ setModelAsMobileNetV2
    \/ setModelAsResNet50
    \/ setModelAsInceptionV3
    \/ setModelAsDenseNet121
    \/ freezeAllLayers
    \/ fineTuneAllLayers
    \/ TrainModel
    \/ SetTrainingParam
    \/ SetTransferLearningMode
    \/ ReplaceHead
    \/ CreateOutput
    \/ LoopHead
    \/ Batch
    \/ PhaseEnd
    \/ RemovePrevious
    \/ SaveCheckpoint
    \/ Return

Spec == Init /\ [][Next]_vars

\* A trainModel call runs on one thread that nothing suspends: whenever the
\* call has a next step, it takes one.
Running ==
    \/ SetTrainingParam
    \/ SetTransferLearningMode
    \/ ReplaceHead
    \/ CreateOutput
    \/ LoopHead
    \/ Batch
    \/ PhaseEnd
    \/ RemovePrevious
    \/ SaveCheckpoint

\* The trainer over a dataset whose class folders are listed in ascending
\* order, as torchvision's ImageFolder lists them.
LiveInit == Init /\ folders = InsertionSort(folders)

LiveSpec == LiveInit /\ [][Next]_vars /\ WF_vars(Running)

\* --------------------------------------- the key remapping on its own
\* Passes of the loop of lines 92-97 followed over one dict.
MaxPasses == 2

\* Keys around the pattern: with and without a prefix, a layer name with
\* one digit, two or none, stages and tensors the pattern names and ones it
\* does not, the number after the stage dotted or joined, a newline at the
\* end or not.
KeyPrefixes == {<<>>, <<"features", ".">>,
                <<"denselayer", "1", ".", "norm", ".">>}
KeyLayers == {<<"denselayer", "1">>, <<"denselayer", "1", "2">>,
              <<"denselayer">>, <<"layer", "1">>}
KeyStages == {"norm", "relu", "conv", "pool"}
KeyNumbers == {"1", "2", "3"}
KeyTensors == Tensors \cup {"num_batches_tracked"}
KeyEnds == {<<>>, <<"\n">>}
LayerKey(prefix, layer, stage, dotted, number, tensor, end) ==
    prefix \o layer \o <<".", stage>> \o (IF dotted THEN <<".">> ELSE <<>>)
           \o <<number, ".", tensor>> \o end

\* The dicts followed: the dotted and the joined form of one key and a key
\* of the final layer, any of them missing, in any order.
KeyLists ==
    UNION {UNION {Arrangements(T) :
                    T \in SUBSET {LayerKey(p, l, s, TRUE, n, t, e),
                                  LayerKey(p, l, s, FALSE, n, t, e),
                                  HeadKey} \ {{}}} :
             p \in KeyPrefixes, l \in KeyLayers, s \in KeyStages,
             n \in KeyNumbers, t \in KeyTensors, e \in KeyEnds}

RemapInit ==
    /\ Constructed
    /\ state_dict \in KeyLists
    /\ passes = 0

\* Lines 92-97 run over the dict once more.
RemapAgain ==
    /\ passes < MaxPasses
    /\ state_dict' = Remapped(state_dict)
    /\ passes' = passes + 1
    /\ UNCHANGED <<trainer, filesystem, pc, locals, history>>

RemapNext == RemapAgain

RemapSpec == RemapInit /\ [][RemapNext]_vars

\* ------------------------------------------------------ checked properties
MaxOf(S) == CHOOSE m \in S : \A x \in S : x <= m

\* Checkpoint files this call wrote that are complete on disk.
OwnFiles == written \cap disk
\* The evaluate phases of this call so far, and the best correct count.
BestSeen == MaxOf({0} \cup Range(acc_history))
FirstBest == CHOOSE i \in 1..Len(acc_history) :
                 /\ acc_history[i] = BestSeen
                 /\ \A j \in 1..(i - 1) : acc_history[j] < BestSeen
\* The file name line 277 builds for the evaluate phase of epoch i - 1.
NameOfPhase(i) ==
    SaveName(model_type, dataset_name, acc_history[i], dataset_sizes.test, i - 1)
\* Between two iterations of the epoch loop, or after the last.
BetweenEpochs == pc \in {"loop", "completed"}

\* C1: whenever an evaluate phase improves on the best accuracy and a
\* previous checkpoint exists, the new checkpoint has been written by the
\* time the deletion of the previous one is attempted (lines 278-279).
C1_WriteBeforeDelete ==
    pc = "remove" => recent_save_name \in OwnFiles

\* C2: once the call has written its first checkpoint, every state of the
\* call has at least one complete checkpoint of the call on disk.
C2_AlwaysACheckpoint ==
    written # {} => OwnFiles # {}

\* C3: a failing deletion of the superseded checkpoint does not end the call,
\* and the new best checkpoint is on disk.
C3_DeleteFailureNonFatal ==
    [][(pc = "remove" /\ disk' = disk)
         => (pc' # "raised" /\ recent_save_name \in OwnFiles')]_vars

\* C4 as stated: after any sequence of evaluate phases exactly one checkpoint
\* path is current, the file of a phase that had the maximum accuracy.
C4_ExactlyOneCurrent ==
    (BetweenEpochs /\ acc_history # <<>>)
        => \E i \in 1..Len(acc_history) :
              /\ acc_history[i] = BestSeen
              /\ prev_save_name = NameOfPhase(i)

\* C4 as amended: after any sequence of evaluate phases no checkpoint path is
\* current while no phase had an accuracy above 0.0; otherwise exactly one
\* is, the file written for the first phase that reached the maximum
\* accuracy seen so far, and that file is on disk.
C4_CurrentIsFirstBest ==
    BetweenEpochs
        => IF BestSeen = 0
           THEN prev_save_name = NoName
           ELSE /\ prev_save_name = NameOfPhase(FirstBest)
                /\ prev_save_name \in OwnFiles

C4_Witness ==
    /\ BetweenEpochs
    /\ Len(acc_history) = 2
    /\ acc_history[1] = acc_history[2]
    /\ acc_history[1] > 0
    /\ prev_save_name = NameOfPhase(1)

\* C5: best_acc starts at 0.0 and after every evaluate phase is the maximum
\* of its previous value and that phase's accuracy, so it never decreases.
C5_BestAccIsRunningMax ==
    best_acc = BestSeen

C5_Witness ==
    /\ pc = "loop"
    /\ Len(acc_history) = 2
    /\ acc_history[2] < acc_history[1]
    /\ best_acc = acc_history[1]

\* Evaluate accuracy rose strictly from each epoch to the next.
StrictlyIncreasing ==
    \A i \in 1..(Len(acc_history) - 1) : acc_history[i] < acc_history[i + 1]

\* C6 as stated: a completed call with at least one epoch leaves exactly one
\* checkpoint file of its own, the last epoch's when accuracy strictly
\* increased.
C6_ExactlyOneFile ==
    (pc = "completed" /\ num_experiments >= 1)
        => /\ Cardinality(OwnFiles) = 1
           /\ (StrictlyIncreasing
                 => OwnFiles = {NameOfPhase(Len(acc_history))})

\* C6 as amended: a completed call leaves no checkpoint file of its own when
\* no evaluate phase had an accuracy above 0.0 and exactly one otherwise (all
\* earlier ones deleted); when accuracy strictly increased each epoch and
\* ended above 0.0 it is the file of the last epoch.
C6_AtMostOneFile ==
    pc = "completed"
        => /\ Cardinality(OwnFiles) = (IF BestSeen > 0 THEN 1 ELSE 0)
           /\ ((StrictlyIncreasing /\ BestSeen > 0)
                 => OwnFiles = {NameOfPhase(Len(acc_history))})

C6_Witness ==
    /\ pc = "completed"
    /\ Len(acc_history) = 2
    /\ StrictlyIncreasing
    /\ acc_history[1] > 0
    /\ Cardinality(written) = 2
    /\ OwnFiles = {NameOfPhase(2)}

\* C7: when the training loop starts the classification head has one output
\* per class and is trainable, and the other parameters are trainable exactly
\* when the freeze mode is not freeze_all, with or without a transfer
\* checkpoint.
C7_HeadAndFreeze ==
    (pc = "loop" /\ epoch = 0)
        => /\ training_params.net.head_out = Len(class_names)
           /\ training_params.net.head_grad
           /\ (training_params.net.body_grad
                 <=> transfer_learning_mode # "freeze_all")

\* C8: a trainModel call with no architecture selected leaves the dataset
\* binding, class names, dataset sizes, dataset name, transfer path, model
\* and optimizer as they were and creates no file or directory.
C8_NoPartialState ==
    [][(pc = "idle" /\ pc' # "idle" /\ model_type = "")
         => UNCHANGED <<data_loaders, class_names, dataset_sizes, dataset_name,
                        model_path, model, optimizer, filesystem>>]_vars

\* C9: with the data directory unset, or when loading the dataset fails,
\* trainModel raises before any model step: no weights loaded, no head
\* replaced, no optimizer or scheduler made, nothing written.
C9_DatasetErrorFirst ==
    [][(pc = "idle" /\ pc' # "idle")
         => /\ data_dir = NoDir => pc' = "raised"
            /\ pc' = "raised"
                 => /\ error' = "dataset"
                    /\ steps' = <<>>
                    /\ UNCHANGED <<training_params, model, optimizer,
                                   lr_scheduler, filesystem>>]_vars

C9_Witness ==
    /\ pc = "raised"
    /\ error = "dataset"
    /\ data_dir # NoDir
    /\ model_type # ""

\* C10: the class mapping written has the keys "0".."N-1", given to the class
\* names in ascending order, whatever the order the names were listed in.
C10_MappingSorted ==
    (mapping_file # NoFile /\ mapping_file[1] # {})
        => LET m == mapping_file[1]
               N == Len(class_names)
           IN  /\ Cardinality(m) = N
               /\ {p[1] : p \in m} = {Str(i) : i \in 0..(N - 1)}
               /\ {p[2] : p \in m} = Range(class_names)
               /\ \A i, j \in 0..(N - 1) : \A p, q \in m :
                    (i < j /\ p[1] = Str(i) /\ q[1] = Str(j))
                        => LexLess(p[2], q[2])

C10_Witness ==
    /\ pc = "loop"
    /\ Len(class_names) = 2
    /\ LexLess(class_names[2], class_names[1])
    /\ mapping_file = <<{<<Str(0), class_names[2]>>, <<Str(1), class_names[1]>>}>>

\* C11: run over a dict it has already been run over, the remapping changes
\* nothing, because no key of such a dict matches the pattern.
C11_RemapFixedPoint ==
    [][passes >= 1
         => /\ state_dict' = state_dict
            /\ \A i \in 1..Len(state_dict) : ~Matches(state_dict[i])]_vars

C11_Witness ==
    /\ passes = 2
    /\ \E i \in 1..Len(state_dict) : \E j \in 1..(Len(state_dict[i]) - 1) :
          /\ state_dict[i][j] \in Stages
          /\ state_dict[i][j + 1] \in {"1", "2"}
          /\ state_dict[i][Len(state_dict[i])] \in Tensors

\* C12: in every phase of every epoch the examples handed out so far are
\* counted once each, so the correct count never exceeds them, and the
\* accuracy of line 271, the correct count over the split's example count,
\* lies in [0, 1] whatever the batch size.
C12_AccuracyInUnitInterval ==
    pc = "batch"
        => /\ dataset_sizes[phase] > 0
           /\ remaining \in 0..dataset_sizes[phase]
           /\ running_corrects \in 0..(dataset_sizes[phase] - remaining)
           /\ Format5(running_corrects, dataset_sizes[phase]) \in 0..100000
           /\ \A i \in 1..Len(acc_history) :
                 Format5(acc_history[i], dataset_sizes.test) \in 0..100000

C12_Witness ==
    /\ pc = "batch"
    /\ phase = "test"
    /\ remaining = 0
    /\ data_loaders > dataset_sizes.test
    /\ running_corrects = dataset_sizes.test
    /\ Len(acc_history) = 1

\* C13: a call that reaches the loop leaves it (by returning, or by an
\* exception of a checkpoint step), a call that returns has run exactly
\* num_experiments epochs, and a call with num_experiments = 0 runs no
\* phase and writes no checkpoint.
C13_TerminatesAfterN ==
    /\ [](pc = "completed"
            => /\ epoch = num_experiments
               /\ Len(acc_history) = num_experiments)
    /\ []((num_experiments = 0 /\ pc # "idle")
            => /\ pc \notin {"batch", "remove", "save"}
               /\ acc_history = <<>>
               /\ opt_steps = 0
               /\ written = {})
    /\ (pc = "loop" ~> pc \in {"completed", "raised"})

C13_Witness ==
    /\ pc = "completed"
    /\ num_experiments = MaxEpochs
    /\ Len(acc_history) = MaxEpochs

\* C14: when a transfer checkpoint is applied, the head has already been
\* replaced in this call, so a checkpoint whose final layer does not have the
\* width the network had before the replacement is still applied.
C14_HeadBeforeTransfer ==
    /\ \A i \in 1..Len(steps) :
          steps[i] = "load_state_dict"
              => \E j \in 1..(i - 1) : steps[j] = "head"
    /\ (pc = "raised" /\ error = "checkpoint_load" /\ state_dict # <<>>)
          => CkptHead(model_path) # Len(class_names)

\* The train phases of this call that have ended.
TrainPhasesDone ==
    epoch + (IF pc \in {"batch", "remove", "save"} /\ phase = "test"
             THEN 1 ELSE 0)

\* C15: with a step-decay schedule in the profile, at every point of the
\* loop the scheduler has been stepped once for each train phase that has
\* ended (not per batch, not after an evaluate phase), and num_experiments
\* times when the call returns.
C15_SchedulerOncePerEpoch ==
    (training_params.sched
       /\ pc \in {"loop", "batch", "remove", "save", "completed"})
        => /\ lr_steps = TrainPhasesDone
           /\ pc = "completed" => lr_steps = num_experiments

C15_Witness ==
    /\ pc = "completed"
    /\ training_params.sched
    /\ num_experiments = MaxEpochs
    /\ data_loaders = 1
    /\ lr_steps = MaxEpochs
    /\ opt_steps = MaxEpochs * MaxSize

\* C16: an epoch starts with its train phase; its evaluate phase starts only
\* when the train phase has handed out all its batches; and the checkpoint
\* files change only in the steps that follow the last batch of an evaluate
\* phase.
C16_TrainThenEvaluate ==
    [][/\ (pc = "loop" /\ pc' = "batch")
            => (phase' = "train" /\ remaining' = dataset_sizes.train)
       /\ (pc' = "batch" /\ phase' = "test" /\ phase = "train")
            => (pc = "batch" /\ remaining = 0
                  /\ remaining' = dataset_sizes.test)
       /\ (disk' # disk \/ torn' # torn)
            => (pc \in {"remove", "save"} /\ phase = "test"
                  /\ remaining = 0)
       /\ pc' \in {"remove", "save"}
            => (phase' = "test" /\ remaining' = 0)]_vars

C16_Witness ==
    /\ pc = "save"
    /\ phase = "test"
    /\ remaining = 0
    /\ data_loaders = 1
    /\ prev_save_name # NoName
    /\ prev_save_name \notin disk
    /\ Len(acc_history) = 2

\* C17: no step of an evaluate phase updates the model's parameters or
\* changes which of them are trainable: the optimizer steps once for every
\* batch of a train phase and for no other.
C17_EvaluateLeavesParameters ==
    [][/\ (pc = "batch" /\ phase = "test")
            => (opt_steps' = opt_steps /\ training_params' = training_params
                  /\ optimizer' = optimizer)
       /\ (pc = "batch" /\ phase = "train" /\ remaining' < remaining)
            => opt_steps' = opt_steps + 1]_vars

C17_Witness ==
    /\ pc = "batch"
    /\ phase = "test"
    /\ remaining = 0
    /\ epoch = 0
    /\ data_loaders = 1
    /\ opt_steps = MaxSize

\* C18: the end of an evaluate phase whose accuracy is not above the best
\* accuracy changes neither the best accuracy, nor the current checkpoint
\* name, nor any file of the output directory, and the next epoch follows.
C18_NoImprovementNoOp ==
    [][(pc = "batch" /\ phase = "test" /\ remaining = 0
          /\ running_corrects <= best_acc)
         => /\ pc' = "loop"
            /\ UNCHANGED <<best_acc, prev_save_name, recent_save_name,
                           filesystem, written>>]_vars

C18_Witness ==
    /\ pc = "loop"
    /\ Len(acc_history) = 2
    /\ acc_history[1] > 0
    /\ acc_history[2] <= acc_history[1]
    /\ prev_save_name = NameOfPhase(1)
    /\ disk = {NameOfPhase(1)}

\* C19: whenever the loop of a call starts with the freeze mode
\* fine_tune_all, every parameter of the model is trainable, whatever calls
\* were made on the trainer before.
C19_FineTuneAllTrainable ==
    (pc = "loop" /\ epoch = 0 /\ transfer_learning_mode = "fine_tune_all")
        => /\ training_params.net.head_grad
           /\ training_params.net.body_grad

\* C20: a call made without a transfer checkpoint path (one that did not
\* run line 197) loads no checkpoint into the model, whatever earlier calls
\* were given.
C20_NoPathNoLoad ==
    "model_path" \notin Range(steps)
        => /\ "load_state_dict" \notin Range(steps)
           /\ state_dict = <<>>

====
